---------------------------- MODULE Spec2Model ----------------------------
(***************************************************************************)
(* py-caskdb: a BitCask-style log-structured key/value store.              *)
(*   src/format.py      record codec (encode_header, encode_kv,            *)
(*                      decode_kv, decode_header)                          *)
(*   src/disk_store.py  DiskStorage (__init__ with replay, set, get,       *)
(*                      close)                                             *)
(* Bytes are integers 0..255, byte strings are sequences of bytes, and a   *)
(* Python str is a sequence of Unicode code points.                        *)
(***************************************************************************)
EXTENDS Integers, Sequences, FiniteSets, TLC

(***************************************************************************)
(* Bounds and inputs                                                       *)
(***************************************************************************)
\* Number of set calls made over the life of the file.
MaxSets == 3

\* Keys passed to set/get: "", "a", and U+00E9 (2 bytes in UTF-8) followed by "a".
Keys == { <<>>, <<97>>, <<233, 97>> }

\* Values passed to set: "", "a", U+00E9.
Values == { <<>>, <<97>>, <<233>> }

\* Readings of int(time.time()).
Timestamps == { 258 }

\* The file name the engines are constructed with.
FileName == "data.db"

\* struct.calcsize("III")
HeaderSize == 12

\* 2^16.  An argument of struct.pack is held as <<hi, lo>>, which stands for
\* hi * 2^16 + lo with lo in 0..2^16-1, so that numbers of 2^32 and more can
\* be written.
Half == 65536

\* Header sizes above SizeCap are read as SizeCap.  Every file of the model is
\* shorter, and a read or an unpack behaves the same for every size beyond
\* the end of the file.
SizeCap == 16777216

(***************************************************************************)
(* Sequence helpers                                                        *)
(***************************************************************************)
Min(a, b) == IF a < b THEN a ELSE b

\* Python's slice data[from:to] with 0-based offsets (clipped to the data).
Slice(s, from, to) ==
    LET lo == Min(from, Len(s))
        hi == Min(to, Len(s))
    IN  IF hi <= lo THEN <<>> ELSE SubSeq(s, lo + 1, hi)

IsPrefix(s, t) == Len(s) <= Len(t) /\ SubSeq(t, 1, Len(s)) = s

Zeros(n) == [i \in 1..n |-> 0]

(***************************************************************************)
(* str.encode("utf-8") and bytes.decode("utf-8")                           *)
(***************************************************************************)
IsSurrogate(cp) == cp >= 55296 /\ cp <= 57343

EncodeCodePoint(cp) ==
    IF cp < 128 THEN <<cp>>
    ELSE IF cp < 2048 THEN <<192 + (cp \div 64), 128 + (cp % 64)>>
    ELSE IF cp < 65536
         THEN <<224 + (cp \div 4096), 128 + ((cp \div 64) % 64), 128 + (cp % 64)>>
    ELSE <<240 + (cp \div 262144), 128 + ((cp \div 4096) % 64),
           128 + ((cp \div 64) % 64), 128 + (cp % 64)>>

RECURSIVE Utf8Encode(_)
Utf8Encode(s) ==
    IF s = <<>> THEN <<>> ELSE EncodeCodePoint(Head(s)) \o Utf8Encode(Tail(s))

IsCont(b) == b >= 128 /\ b <= 191

\* Bytes 2..n of b exist and are continuation bytes, the second one in lo..hi.
Tail2(b, n, lo, hi) ==
    /\ Len(b) >= n
    /\ b[2] >= lo /\ b[2] <= hi
    /\ \A i \in 2..n : IsCont(b[i])

\* Number of bytes of the well-formed UTF-8 sequence starting at b[1], 0 if none.
Utf8SeqLen(b) ==
    CASE b[1] < 128                -> 1
      [] b[1] \in 194..223         -> IF Tail2(b, 2, 128, 191) THEN 2 ELSE 0
      [] b[1] = 224                -> IF Tail2(b, 3, 160, 191) THEN 3 ELSE 0
      [] b[1] = 237                -> IF Tail2(b, 3, 128, 159) THEN 3 ELSE 0
      [] b[1] \in (225..239) \ {237} -> IF Tail2(b, 3, 128, 191) THEN 3 ELSE 0
      [] b[1] = 240                -> IF Tail2(b, 4, 144, 191) THEN 4 ELSE 0
      [] b[1] \in 241..243         -> IF Tail2(b, 4, 128, 191) THEN 4 ELSE 0
      [] b[1] = 244                -> IF Tail2(b, 4, 128, 143) THEN 4 ELSE 0
      [] OTHER                     -> 0

DecodeCodePoint(b, n) ==
    CASE n = 1 -> b[1]
      [] n = 2 -> (b[1] - 192) * 64 + (b[2] - 128)
      [] n = 3 -> (b[1] - 224) * 4096 + (b[2] - 128) * 64 + (b[3] - 128)
      [] OTHER -> (b[1] - 240) * 262144 + (b[2] - 128) * 4096
                      + (b[3] - 128) * 64 + (b[4] - 128)

\* The decoded code point cp in front of the decoding of the remaining bytes.
Decoded(cp, rest) ==
    IF rest.err # "none" THEN rest ELSE [err |-> "none", val |-> <<cp>> \o rest.val]

\* bytes.decode("utf-8"): [err |-> "none", val |-> the str], or UnicodeDecodeError.
RECURSIVE Utf8Decode(_)
Utf8DecodeSeq(b, n) ==
    IF n = 0 THEN [err |-> "UnicodeDecodeError", val |-> <<>>]
    ELSE Decoded(DecodeCodePoint(b, n), Utf8Decode(SubSeq(b, n + 1, Len(b))))

Utf8Decode(b) ==
    IF b = <<>> THEN [err |-> "none", val |-> <<>>]
    ELSE Utf8DecodeSeq(b, Utf8SeqLen(b))

(***************************************************************************)
(* struct.pack / struct.unpack                                             *)
(***************************************************************************)
\* The number x as <<hi, lo>>.
Wide(x) == <<x \div Half, x % Half>>

\* A field that masks its argument to 32 bits instead of checking its range.
InUInt32Masked(w) == TRUE

\* struct.pack("I", w) accepts 0 <= w <= 4294967295.
InUInt32(w) == w[1] >= 0 /\ w[1] < Half

\* One "I" field: 4 bytes, little-endian.
PackUInt32(w) ==
    <<w[2] % 256, (w[2] \div 256) % 256, w[1] % 256, (w[1] \div 256) % 256>>

\* The integers at hand are 32-bit signed ones: a field of 2^31 or more is
\* held as the field minus 2^32 (one negative number per field value).
UnpackUInt32(b) ==
    b[1] + 256 * b[2] + 65536 * b[3]
        + 16777216 * (IF b[4] < 128 THEN b[4] ELSE b[4] - 256)

\* The value UnpackUInt32 gives for the field that holds w.
FieldOf(w) ==
    (IF w[1] < 32768 THEN w[1] ELSE w[1] - Half) * Half + w[2]

\* A size field as a byte count.
SizeOf(n) == IF n < 0 \/ n > SizeCap THEN SizeCap ELSE n

\* The "<n>s" field of struct.pack: exactly n bytes, the argument cut to n
\* bytes or padded with zero bytes.
PackBytes(n, b) ==
    IF Len(b) >= n THEN SubSeq(b, 1, n) ELSE b \o Zeros(n - Len(b))

(***************************************************************************)
(* format.py                                                               *)
(***************************************************************************)
encode_header(timestamp, key_size, value_size) ==
    IF \E x \in {timestamp, key_size, value_size} : ~InUInt32(x)
    THEN [err |-> "struct.error", bytes |-> <<>>]
    ELSE [err |-> "none",
          bytes |-> PackUInt32(timestamp) \o PackUInt32(key_size)
                        \o PackUInt32(value_size)]

\* Lines 48-50 for the packed header: the payload is packed with the format
\* f"{key_size}s{value_size}s".
PackKv(header, key_size, value_size, key, value) ==
    IF header.err # "none" THEN [err |-> header.err, size |-> 0, bytes |-> <<>>]
    ELSE IF \E i \in 1..Len(key) : IsSurrogate(key[i])
    THEN [err |-> "UnicodeEncodeError", size |-> 0, bytes |-> <<>>]
    ELSE IF \E i \in 1..Len(value) : IsSurrogate(value[i])
    THEN [err |-> "UnicodeEncodeError", size |-> 0, bytes |-> <<>>]
    ELSE [err |-> "none",
          size |-> key_size + value_size,
          bytes |-> header.bytes \o PackBytes(key_size, Utf8Encode(key))
                        \o PackBytes(value_size, Utf8Encode(value))]

\* key_size = len(key) and value_size = len(value) count code points.
encode_kv(timestamp, key, value) ==
    PackKv(encode_header(timestamp, Wide(Len(key)), Wide(Len(value))),
           Len(key), Len(value), key, value)

decode_header(data) ==
    IF Len(data) # HeaderSize
    THEN [err |-> "struct.error", timestamp |-> 0, key_size |-> 0, value_size |-> 0]
    ELSE [err |-> "none",
          timestamp  |-> UnpackUInt32(SubSeq(data, 1, 4)),
          key_size   |-> UnpackUInt32(SubSeq(data, 5, 8)),
          value_size |-> UnpackUInt32(SubSeq(data, 9, 12))]

\* The tail of decode_kv: key.decode("utf-8"), value.decode("utf-8").
DecodedKv(timestamp, key, value) ==
    IF key.err # "none"
    THEN [err |-> key.err, timestamp |-> 0, key |-> <<>>, value |-> <<>>]
    ELSE IF value.err # "none"
    THEN [err |-> value.err, timestamp |-> 0, key |-> <<>>, value |-> <<>>]
    ELSE [err |-> "none", timestamp |-> timestamp, key |-> key.val,
          value |-> value.val]

\* struct.unpack(f"{key_size}s{value_size}s", payload) for the header h.
UnpackKv(h, payload) ==
    IF h.err # "none"
    THEN [err |-> h.err, timestamp |-> 0, key |-> <<>>, value |-> <<>>]
    ELSE IF Len(payload) # SizeOf(h.key_size) + SizeOf(h.value_size)
    THEN [err |-> "struct.error", timestamp |-> 0, key |-> <<>>, value |-> <<>>]
    ELSE DecodedKv(h.timestamp,
                   Utf8Decode(Slice(payload, 0, SizeOf(h.key_size))),
                   Utf8Decode(Slice(payload, SizeOf(h.key_size), Len(payload))))

decode_kv(data) ==
    UnpackKv(decode_header(Slice(data, 0, HeaderSize)),
             Slice(data, HeaderSize, Len(data)))

(***************************************************************************)
(* disk_store.py: state                                                    *)
(***************************************************************************)
VARIABLES
    file,      \* bytes of the log file as the operating system holds them
    synced,    \* length of the prefix of file that is on stable storage
    keydir,    \* self.keydir of the current DiskStorage object: key -> entry
    status,    \* "open": object with an open handle; "closed": object after
               \* close(); "none": no object (construction raised, or crash)
    ret,       \* the last call and what it returned or raised
    calls,     \* history: the set calls that appended a record, in order
    cut,       \* history: offset the file was truncated at, -1 if never
    run,       \* the call in progress when a call is followed statement by
               \* statement: its position, arguments and local variables
    codec,     \* a codec call on its own: its arguments and its result
    peers      \* two DiskStorage objects on one file: keydir and handle
               \* position of each

\* The variables used only by the specifications that follow a call statement
\* by statement, call the codec on its own or run two objects.
aux == <<run, codec, peers>>

vars == <<file, synced, keydir, status, ret, calls, cut, run, codec, peers>>

NoRun == [pc |-> "idle"]

NoCodec == [op |-> "none"]

NoPeers == <<>>

EmptyKeydir == [k \in {} |-> 0]

Entry(file_id, value_sz, value_pos, tstamp) ==
    [file_id |-> file_id, value_sz |-> value_sz, value_pos |-> value_pos,
     tstamp |-> tstamp]

\* self.keydir[key] = entry
Upsert(kd, key, entry) ==
    [k \in (DOMAIN kd) \cup {key} |-> IF k = key THEN entry ELSE kd[k]]

Ret(op, err, key, val) == [op |-> op, err |-> err, key |-> key, val |-> val]

(***************************************************************************)
(* DiskStorage.__init__                                                    *)
(***************************************************************************)
\* open(file_name, "wb+") in place of "ab+": the file is emptied.
OpenTruncate(f) == <<>>

\* open(file_name, "ab+"): creates the file if absent, keeps its content.
OpenAppend(f) == f

ReplayFailed(err, offset) ==
    [err |-> err, key |-> <<>>, offset |-> offset, entry |-> Entry(FileName, 0, 0, 0)]

\* A loop that advances the offset by the payload alone.
ReplayEntryNoHeader(offset, timestamp, kv) ==
    IF kv.err # "none" THEN ReplayFailed(kv.err, offset)
    ELSE [err |-> "none", key |-> kv.key,
          offset |-> offset + Len(kv.key) + Len(kv.value),
          entry |-> Entry(FileName, Len(kv.value), offset + Len(kv.key), timestamp)]

\* Lines 79-87: the sizes are recomputed as len(key) and len(value) of the
\* decoded strings, the offset advances by them and the entry is stored.
ReplayEntry(offset, timestamp, kv) ==
    IF kv.err # "none" THEN ReplayFailed(kv.err, offset)
    ELSE [err |-> "none", key |-> kv.key,
          offset |-> offset + HeaderSize + Len(kv.key) + Len(kv.value),
          entry |-> Entry(FileName, Len(kv.value),
                          (offset + HeaderSize + Len(kv.key) + Len(kv.value))
                              - Len(kv.value),
                          timestamp)]

\* Lines 76-78: the record is read again with the sizes the header h declares.
ReplayRecord(f, offset, h) ==
    IF h.err # "none" THEN ReplayFailed(h.err, offset)
    ELSE ReplayEntry(offset, h.timestamp,
             decode_kv(Slice(f, offset,
                             offset + HeaderSize + SizeOf(h.key_size)
                                 + SizeOf(h.value_size))))

\* One iteration of the replay loop at self.offset = offset.
ReplayStep(f, offset) ==
    ReplayRecord(f, offset, decode_header(Slice(f, offset, offset + HeaderSize)))

\* while self.offset < os.path.getsize(file_name): ...
RECURSIVE Replay(_, _, _)
ReplayNext(f, kd, offset, s) ==
    IF s.err # "none" THEN [err |-> s.err, keydir |-> kd, offset |-> offset]
    ELSE Replay(f, s.offset, Upsert(kd, s.key, s.entry))

Replay(f, offset, kd) ==
    IF offset < Len(f) THEN ReplayNext(f, kd, offset, ReplayStep(f, offset))
    ELSE [err |-> "none", keydir |-> kd, offset |-> offset]

\* DiskStorage(file_name): an exception leaves the caller without an object.
Constructed(f, r) ==
    /\ file' = f
    /\ synced' = Min(synced, Len(f))
    /\ keydir' = IF r.err = "none" THEN r.keydir ELSE EmptyKeydir
    /\ status' = IF r.err = "none" THEN "open" ELSE "none"
    /\ ret' = Ret("open", r.err, <<>>, <<>>)

Open ==
    /\ status \in {"closed", "none"}
    /\ Constructed(OpenAppend(file), Replay(OpenAppend(file), 0, EmptyKeydir))
    /\ UNCHANGED <<calls, cut, aux>>

(***************************************************************************)
(* DiskStorage.set                                                         *)
(***************************************************************************)
\* self.file_handle.write(kv_data) on a handle opened in append mode.
Write(f, data) == f \o data

\* self.file_handle.flush(); os.fsync(...): everything written is durable.
Fsync(f, n) == Len(f)

\* Lines 92-101 for the encoded record data: append, flush, fsync, index.
Appended(key, value, current_timestamp, f) ==
    /\ file' = f
    /\ synced' = Fsync(f, synced)
    /\ keydir' = Upsert(keydir, key,
                     Entry(FileName, Len(value), Len(f) - Len(value),
                           current_timestamp))
    /\ calls' = Append(calls, [key |-> key, value |-> value,
                               timestamp |-> current_timestamp])
    /\ ret' = Ret("set", "none", key, <<>>)

\* set on a handle that accepts writes after close().
SetEncodedAfterClose(key, value, current_timestamp, enc) ==
    IF enc.err # "none"
    THEN /\ ret' = Ret("set", enc.err, key, <<>>)
         /\ UNCHANGED <<file, synced, keydir, calls>>
    ELSE Appended(key, value, current_timestamp, Write(file, enc.bytes))

SetEncoded(key, value, current_timestamp, enc) ==
    IF enc.err # "none"
    THEN /\ ret' = Ret("set", enc.err, key, <<>>)
         /\ UNCHANGED <<file, synced, keydir, calls>>
    ELSE IF status = "closed"
    THEN \* write() on a closed handle raises ValueError
         /\ ret' = Ret("set", "ValueError", key, <<>>)
         /\ UNCHANGED <<file, synced, keydir, calls>>
    ELSE Appended(key, value, current_timestamp, Write(file, enc.bytes))

Set(key, value, current_timestamp) ==
    /\ status \in {"open", "closed"}
    /\ Len(calls) < MaxSets
    /\ cut = -1
    /\ SetEncoded(key, value, current_timestamp,
                  encode_kv(Wide(current_timestamp), key, value))
    /\ UNCHANGED <<status, cut, aux>>

(***************************************************************************)
(* DiskStorage.get                                                         *)
(***************************************************************************)
\* get that looks the key up without the membership test: KeyError.
getKeyError(kd, f, key) ==
    IF key \notin DOMAIN kd THEN [err |-> "KeyError", val |-> <<>>]
    ELSE Utf8Decode(Slice(f, kd[key].value_pos, kd[key].value_pos + kd[key].value_sz))

\* Lines 110-116: struct.unpack(f"{value_sz}s", value_bytes), then decode.
UnpackValue(value_sz, value_bytes) ==
    IF Len(value_bytes) # value_sz THEN [err |-> "struct.error", val |-> <<>>]
    ELSE Utf8Decode(value_bytes)

get(kd, f, key) ==
    IF key \notin DOMAIN kd THEN [err |-> "none", val |-> <<>>]
    ELSE UnpackValue(kd[key].value_sz,
                     Slice(f, kd[key].value_pos, kd[key].value_pos + kd[key].value_sz))

\* get on a keydir that creates an entry on lookup (a defaultdict).
GetInserting(key) ==
    /\ status \in {"open", "closed"}
    /\ ret' = Ret("get", get(keydir, file, key).err, key, get(keydir, file, key).val)
    /\ keydir' = IF key \in DOMAIN keydir THEN keydir
                 ELSE Upsert(keydir, key, Entry(FileName, 0, 0, 0))
    /\ UNCHANGED <<file, synced, status, calls, cut, aux>>

Get(key) ==
    /\ status \in {"open", "closed"}
    /\ ret' = Ret("get", get(keydir, file, key).err, key, get(keydir, file, key).val)
    /\ UNCHANGED <<file, synced, keydir, status, calls, cut, aux>>

(***************************************************************************)
(* DiskStorage.close                                                       *)
(***************************************************************************)
Close ==
    /\ status \in {"open", "closed"}
    /\ IF status = "open"
       THEN /\ synced' = Fsync(file, synced)
            /\ status' = "closed"
            /\ ret' = Ret("close", "none", <<>>, <<>>)
       ELSE /\ ret' = Ret("close", "ValueError", <<>>, <<>>)
            /\ UNCHANGED <<synced, status>>
    /\ UNCHANGED <<file, keydir, calls, cut, aux>>

(***************************************************************************)
(* Environment: a crash of the process and machine, and a truncation of    *)
(* the log file while no engine has it open                                *)
(***************************************************************************)
Crash ==
    /\ status \in {"open", "closed"}
    /\ cut = -1
    /\ file' = SubSeq(file, 1, synced)
    /\ keydir' = EmptyKeydir
    /\ status' = "none"
    /\ ret' = Ret("crash", "none", <<>>, <<>>)
    /\ UNCHANGED <<synced, calls, cut, aux>>

\* Offsets at which the records appended by the given set calls start and end.
RECURSIVE Boundaries(_)
Boundaries(cs) ==
    IF cs = <<>> THEN {0}
    ELSE LET c == cs[Len(cs)]
             before == Boundaries(SubSeq(cs, 1, Len(cs) - 1))
             last == CHOOSE m \in before : \A x \in before : x <= m
         IN  before \cup
               {last + Len(encode_kv(Wide(c.timestamp), c.key, c.value).bytes)}

Truncate(n) ==
    /\ status \in {"closed", "none"}
    /\ cut = -1
    /\ n \in 1..(Len(file) - 1)
    /\ n \notin Boundaries(calls)
    /\ file' = SubSeq(file, 1, n)
    /\ synced' = n
    /\ cut' = n
    /\ ret' = Ret("truncate", "none", <<>>, <<>>)
    /\ UNCHANGED <<keydir, status, calls, aux>>

(***************************************************************************)
(* Specification                                                           *)
(***************************************************************************)
\* A DiskStorage freshly constructed on a file that did not exist.
Init ==
    /\ file = <<>>
    /\ synced = 0
    /\ keydir = EmptyKeydir
    /\ status = "open"
    /\ ret = Ret("open", "none", <<>>, <<>>)
    /\ calls = <<>>
    /\ cut = -1
    /\ run = NoRun
    /\ codec = NoCodec
    /\ peers = NoPeers

Next ==
    \/ \E key \in Keys, value \in Values, t \in Timestamps : Set(key, value, t)
    \/ \E key \in Keys : Get(key)
    \/ Close
    \/ Open
    \/ Crash

Spec == Init /\ [][Next]_vars

\* The corruption scenario: a log is written, the engine is closed, the file
\* is cut inside a record and a new engine is constructed on it.
NextCorrupt ==
    \/ \E key \in Keys, value \in Values, t \in Timestamps : Set(key, value, t)
    \/ Close
    \/ \E n \in 1..(MaxSets * (HeaderSize + 4)) : Truncate(n)
    \/ Open
    \/ \E key \in Keys : Get(key)

SpecCorrupt == Init /\ [][NextCorrupt]_vars

(***************************************************************************)
(* Vocabulary of the claims                                                *)
(***************************************************************************)
KeysWritten == { calls[i].key : i \in 1..Len(calls) }

\* The value passed to the most recent set(k, v).
LastValue(k) ==
    calls[CHOOSE i \in 1..Len(calls) :
              /\ calls[i].key = k
              /\ \A j \in (i + 1)..Len(calls) : calls[j].key # k].value

Returned(v) == [err |-> "none", val |-> v]

\* The records of a log as the on-disk format defines them: a 12-byte header,
\* then key_size key bytes, then value_size value bytes.
RECURSIVE LogRecords(_, _)
LogRecordAt(f, off, key_size, value_size) ==
    IF off + HeaderSize + key_size + value_size > Len(f) THEN <<>>
    ELSE <<[start |-> off,
            key |-> Slice(f, off + HeaderSize, off + HeaderSize + key_size),
            value_pos |-> off + HeaderSize + key_size,
            value_sz |-> value_size]>>
         \o LogRecords(f, off + HeaderSize + key_size + value_size)

LogRecords(f, off) ==
    IF off + HeaderSize > Len(f) THEN <<>>
    ELSE LogRecordAt(f, off,
             SizeOf(decode_header(Slice(f, off, off + HeaderSize)).key_size),
             SizeOf(decode_header(Slice(f, off, off + HeaderSize)).value_size))

\* The log the set calls made so far have written.
RECURSIVE WrittenLog(_)
WrittenLog(cs) ==
    IF cs = <<>> THEN <<>>
    ELSE WrittenLog(SubSeq(cs, 1, Len(cs) - 1))
         \o encode_kv(Wide(cs[Len(cs)].timestamp), cs[Len(cs)].key,
                      cs[Len(cs)].value).bytes

\* A log is well formed when it is a sequence of whole records whose keys and
\* values are UTF-8 text.
RecordsEnd(rs) ==
    IF rs = <<>> THEN 0 ELSE rs[Len(rs)].value_pos + rs[Len(rs)].value_sz

WellFormedLog(f) ==
    /\ RecordsEnd(LogRecords(f, 0)) = Len(f)
    /\ \A i \in 1..Len(LogRecords(f, 0)) :
         /\ Utf8Decode(LogRecords(f, 0)[i].key).err = "none"
         /\ Utf8Decode(Slice(f, LogRecords(f, 0)[i].value_pos,
                             LogRecords(f, 0)[i].value_pos
                                 + LogRecords(f, 0)[i].value_sz)).err = "none"

\* The last record of the log whose key is k, 0 if there is none.
LastRecordOf(rs, k) ==
    IF \E i \in 1..Len(rs) : rs[i].key = Utf8Encode(k)
    THEN CHOOSE i \in 1..Len(rs) :
             /\ rs[i].key = Utf8Encode(k)
             /\ \A j \in (i + 1)..Len(rs) : rs[j].key # Utf8Encode(k)
    ELSE 0

(***************************************************************************)
(* Claims                                                                  *)
(***************************************************************************)
\* C1: on an open engine, get(k) returns exactly the value passed to the most
\* recent set(k, v), for every key that has been set (non-ASCII and empty
\* strings included).
C1_GetReturnsLastSet ==
    (ret.op = "get" /\ status = "open" /\ ret.key \in KeysWritten)
        => (ret.err = "none" /\ ret.val = LastValue(ret.key))

\* C2: after set calls, close() and construction of a new engine on the same
\* file, get(k) returns the last value set for every key written and the
\* rebuilt index has one entry per distinct key written.
C2_PersistenceAcrossReopen ==
    [][(status = "closed" /\ ret'.op = "open")
          => /\ ret'.err = "none"
             /\ \A k \in KeysWritten :
                    get(keydir', file', k) = Returned(LastValue(k))
             /\ Cardinality(DOMAIN keydir') = Cardinality(KeysWritten)]_vars

\* C3: the index the constructor builds on reopening a log written by this
\* engine is identical, entry for entry, to the index the writing engine held
\* after its last set.
C3_ReplayReproducesIndex ==
    [][(status = "closed" /\ ret'.op = "open")
          => (ret'.err = "none" /\ keydir' = keydir)]_vars

\* C4: every index entry for key k lies within the file and addresses exactly
\* the value field (record start + 12 + key size) of the last record in the
\* log whose key is k.
C4_IndexAddressesLastRecord ==
    status = "open" =>
        \A k \in DOMAIN keydir :
            /\ keydir[k].value_pos + keydir[k].value_sz <= Len(file)
            /\ LastRecordOf(LogRecords(file, 0), k) # 0
            /\ keydir[k].value_pos
                   = LogRecords(file, 0)[LastRecordOf(LogRecords(file, 0), k)].value_pos
            /\ keydir[k].value_sz
                   = LogRecords(file, 0)[LastRecordOf(LogRecords(file, 0), k)].value_sz

\* C5: set, get, close and construction leave every byte already in the file
\* in place (the old content is a prefix of the new one), so every recorded
\* value_pos/value_sz keeps addressing the same bytes.
C5_AppendOnly ==
    [][ret'.op \in {"set", "get", "close", "open"}
          => /\ IsPrefix(file, file')
             /\ \A k \in DOMAIN keydir :
                    Slice(file', keydir[k].value_pos,
                          keydir[k].value_pos + keydir[k].value_sz)
                      = Slice(file, keydir[k].value_pos,
                              keydir[k].value_pos + keydir[k].value_sz)]_vars

C5_Witness ==
    /\ ret.op = "open" /\ ret.err = "none"
    /\ Len(calls) >= 2
    /\ Len(file) > 0
    /\ DOMAIN keydir # {}

\* C6: every successful set(k, v) grows the file by exactly
\* 12 + byte-length(k) + byte-length(v), and no operation shrinks the file.
C6_SetGrowsByOneRecord ==
    [][/\ Len(calls') > Len(calls)
          => Len(file') = Len(file) + HeaderSize
                            + Len(Utf8Encode(calls'[Len(calls')].key))
                            + Len(Utf8Encode(calls'[Len(calls')].value))
       /\ ret'.op \in {"set", "get", "close", "open"} => Len(file') >= Len(file)]_vars

\* C7: a well-formed log truncated at a byte position that is not a record
\* boundary makes construction fail, leaving no engine and no index.
C7_TruncationDetected ==
    (ret.op = "open" /\ cut # -1 /\ WellFormedLog(WrittenLog(calls)))
        => (ret.err # "none" /\ status = "none" /\ keydir = EmptyKeydir)

\* C8: once set(k, v) has returned, a crash followed by construction of a new
\* engine on the same file yields get(k) = v unless a later set overwrote k.
C8_DurableAcrossCrash ==
    [][(ret.op = "crash" /\ ret'.op = "open")
          => /\ ret'.err = "none"
             /\ \A k \in KeysWritten :
                    get(keydir', file', k) = Returned(LastValue(k))]_vars

\* C9: on an open engine, get(k) for a key that is not in the index returns
\* the empty string and raises nothing.
C9_MissingKeyIsEmpty ==
    (ret.op = "get" /\ status = "open" /\ ret.key \notin DOMAIN keydir)
        => (ret.err = "none" /\ ret.val = <<>>)

C9_Witness ==
    /\ ret.op = "get" /\ status = "open"
    /\ ret.key \notin DOMAIN keydir
    /\ DOMAIN keydir # {}
    /\ ret.val = <<>>

\* C10: a get call, for a present or an absent key, leaves the index, the log
\* file contents and the file length unchanged.
C10_GetIsReadOnly ==
    [][ret'.op = "get"
          => /\ keydir' = keydir
             /\ file' = file
             /\ Len(file') = Len(file)
             /\ synced' = synced
             /\ status' = status]_vars

C10_Witness ==
    /\ ret.op = "get"
    /\ ret.key \in DOMAIN keydir
    /\ ret.err = "none"
    /\ ret.val # <<>>
    /\ Cardinality(DOMAIN keydir) < Cardinality(Keys)

\* C11: after close(), every subsequent set and get fails with an error and
\* leaves the log file and the index unchanged.
C11_ClosedRejectsSetAndGet ==
    [][(status = "closed" /\ ret'.op \in {"set", "get"})
          => (ret'.err # "none" /\ file' = file /\ keydir' = keydir)]_vars

\* C11 as amended: after close(), set fails with an error; get does not fail
\* for being called after close() and returns what it returns on the open
\* engine; both leave the log file and the index unchanged.
C11_ClosedRejectsSet ==
    [][/\ (status = "closed" /\ ret'.op = "set")
            => (ret'.err # "none" /\ file' = file /\ keydir' = keydir)
       /\ (status = "closed" /\ ret'.op = "get")
            => /\ file' = file /\ keydir' = keydir
               /\ ret'.err = get(keydir, file, ret'.key).err
               /\ ret'.val = get(keydir, file, ret'.key).val]_vars

C11_Witness ==
    /\ status = "closed"
    /\ ret.op = "set" /\ ret.err = "ValueError"
    /\ Len(file) > 0

-----------------------------------------------------------------------------
(* The codec of src/format.py called on its own.                           *)

\* Header fields as <<hi, lo>>: -1, 0, 258, 2^31, 2^32 - 1, 2^32, 2^32 + 1.
Fields ==
    { <<-1, 65535>>, <<0, 0>>, <<0, 258>>, <<32768, 0>>, <<65535, 65535>>,
      <<65536, 0>>, <<65536, 1>> }

\* Timestamps of encode_kv: 0, 258, 2^32 - 1.
CodecTimestamps == { <<0, 0>>, <<0, 258>>, <<65535, 65535>> }

\* Strings of one- to three-byte code points: "", "a", "é", "éa", "a€".
CodecStrings == { <<>>, <<97>>, <<233>>, <<233, 97>>, <<97, 8364>> }

rest == <<file, synced, keydir, status, ret, calls, cut, run, peers>>

EncodeHeader(timestamp, key_size, value_size) ==
    /\ codec' = [op |-> "encode_header",
                 timestamp |-> timestamp,
                 key_size |-> key_size,
                 value_size |-> value_size,
                 out |-> encode_header(timestamp, key_size, value_size)]
    /\ UNCHANGED rest

\* decode_header on the bytes encode_header has returned.
DecodeHeader ==
    /\ codec.op = "encode_header"
    /\ codec.out.err = "none"
    /\ codec' = [op |-> "decode_header",
                 timestamp |-> codec.timestamp,
                 key_size |-> codec.key_size,
                 value_size |-> codec.value_size,
                 data |-> codec.out.bytes,
                 out |-> decode_header(codec.out.bytes)]
    /\ UNCHANGED rest

EncodeKv(timestamp, key, value) ==
    /\ codec' = [op |-> "encode_kv",
                 timestamp |-> timestamp,
                 key |-> key,
                 value |-> value,
                 out |-> encode_kv(timestamp, key, value)]
    /\ UNCHANGED rest

\* decode_kv on the bytes encode_kv has returned.
DecodeKv ==
    /\ codec.op = "encode_kv"
    /\ codec.out.err = "none"
    /\ codec' = [op |-> "decode_kv",
                 timestamp |-> codec.timestamp,
                 key |-> codec.key,
                 value |-> codec.value,
                 data |-> codec.out.bytes,
                 out |-> decode_kv(codec.out.bytes)]
    /\ UNCHANGED rest

NextCodec ==
    \/ \E t \in Fields, ks \in Fields, vs \in Fields : EncodeHeader(t, ks, vs)
    \/ DecodeHeader
    \/ \E t \in CodecTimestamps, key \in CodecStrings, value \in CodecStrings :
           EncodeKv(t, key, value)
    \/ DecodeKv

SpecCodec == Init /\ [][NextCodec]_vars

\* C12: for every key and value, multi-byte ones included, and every
\* timestamp in 0..2^32-1, decode_kv(encode_kv(timestamp, key, value)[1])
\* returns exactly (timestamp, key, value).
C12_KvRoundTrip ==
    codec.op = "decode_kv"
        => /\ codec.out.err = "none"
           /\ codec.out.timestamp = FieldOf(codec.timestamp)
           /\ codec.out.key = codec.key
           /\ codec.out.value = codec.value

\* C13: encode_kv returns payload_size = byte length of the encoded key plus
\* byte length of the encoded value; the header fields key_size and
\* value_size are those byte lengths; the record is 12 + payload_size bytes.
C13_SizesAreByteLengths ==
    (codec.op = "encode_kv" /\ codec.out.err = "none")
        => /\ codec.out.size
                 = Len(Utf8Encode(codec.key)) + Len(Utf8Encode(codec.value))
           /\ Len(codec.out.bytes) >= HeaderSize
           /\ decode_header(SubSeq(codec.out.bytes, 1, HeaderSize)).key_size
                 = Len(Utf8Encode(codec.key))
           /\ decode_header(SubSeq(codec.out.bytes, 1, HeaderSize)).value_size
                 = Len(Utf8Encode(codec.value))
           /\ Len(codec.out.bytes) = HeaderSize + codec.out.size

\* C14: encode_header raises, and returns no bytes, when a field is outside
\* 0..2^32-1; for fields within the range it returns 12 bytes from which
\* decode_header returns the same three fields.
C14_HeaderRangeAndRoundTrip ==
    /\ codec.op = "encode_header"
         => IF \E w \in {codec.timestamp, codec.key_size, codec.value_size} :
                   w[1] < 0 \/ w[1] >= Half
            THEN codec.out.err # "none" /\ codec.out.bytes = <<>>
            ELSE codec.out.err = "none" /\ Len(codec.out.bytes) = HeaderSize
    /\ codec.op = "decode_header"
         => /\ codec.out.err = "none"
            /\ codec.out.timestamp = FieldOf(codec.timestamp)
            /\ codec.out.key_size = FieldOf(codec.key_size)
            /\ codec.out.value_size = FieldOf(codec.value_size)

C14_WitnessRejected ==
    /\ codec.op = "encode_header"
    /\ codec.timestamp = <<0, 258>>
    /\ codec.key_size = <<65536, 0>>
    /\ codec.out.err = "struct.error"

C14_Witness ==
    /\ codec.op = "decode_header"
    /\ codec.timestamp = <<65535, 65535>>
    /\ codec.key_size = <<0, 258>>
    /\ codec.value_size = <<32768, 0>>
    /\ codec.out.err = "none"

-----------------------------------------------------------------------------
(* DiskStorage.__init__ one loop iteration at a time, on the files a crash  *)
(* or another program can leave behind.                                    *)

MaxRecords == 2

\* The records the engine writes for the keys, values and clock at hand.
WrittenRecords ==
    { encode_kv(Wide(t), k, v).bytes : k \in Keys, v \in Values, t \in Timestamps }

\* The logs of at most n such records.
RECURSIVE LogsOf(_)
LogsOf(n) ==
    IF n = 0 THEN { <<>> }
    ELSE LogsOf(n - 1) \cup { l \o r : l \in LogsOf(n - 1), r \in WrittenRecords }

\* Files no set call wrote: a header of 0xFF bytes; a record at timestamp 0
\* with empty key and value followed by "é" -> "a" with key_size = 2 (the
\* byte length); an "a" -> "" record whose key byte is not UTF-8.
ForeignFiles ==
    { <<255, 255, 255, 255, 255, 255, 255, 255, 255, 255, 255, 255>>,
      <<0, 0, 0, 0, 0, 0, 0, 0, 0, 0, 0, 0,
        2, 1, 0, 0, 2, 0, 0, 0, 1, 0, 0, 0, 195, 169, 97>>,
      <<2, 1, 0, 0, 1, 0, 0, 0, 0, 0, 0, 0, 255>> }

\* Every prefix of a log (a crash may leave a record torn) and the foreign
\* files.
ReplayFiles ==
    UNION { { SubSeq(l, 1, n) : n \in 0..Len(l) } : l \in LogsOf(MaxRecords) }
        \cup ForeignFiles

\* A file on disk and no DiskStorage object.
InitReplay ==
    /\ file \in ReplayFiles
    /\ synced = Len(file)
    /\ keydir = EmptyKeydir
    /\ status = "none"
    /\ ret = Ret("crash", "none", <<>>, <<>>)
    /\ calls = <<>>
    /\ cut = -1
    /\ run = NoRun
    /\ codec = NoCodec
    /\ peers = NoPeers

\* Lines 68-71: the file is opened, self.keydir = {} and self.offset = 0.
\* iters counts the iterations of the loop that have run to their end.
BeginInit ==
    /\ status = "none"
    /\ run = NoRun
    /\ file' = OpenAppend(file)
    /\ keydir' = EmptyKeydir
    /\ run' = [pc |-> "replay", offset |-> 0, iters |-> 0]
    /\ UNCHANGED <<synced, status, ret, calls, cut, codec, peers>>

\* The outcome s of one iteration: the exception leaves __init__, or the
\* offset and the index are updated.
Iterated(s) ==
    /\ run' = IF s.err = "none"
              THEN [pc |-> "replay", offset |-> s.offset, iters |-> run.iters + 1]
              ELSE [pc |-> "raised", offset |-> run.offset, iters |-> run.iters]
    /\ keydir' = IF s.err = "none" THEN Upsert(keydir, s.key, s.entry)
                 ELSE EmptyKeydir
    /\ ret' = IF s.err = "none" THEN ret ELSE Ret("open", s.err, <<>>, <<>>)

\* Lines 72-87: one iteration of the while loop.
ReplayLoop ==
    /\ run.pc = "replay"
    /\ run.offset < Len(file)
    /\ Iterated(ReplayStep(file, run.offset))
    /\ UNCHANGED <<file, synced, status, calls, cut, codec, peers>>

\* Line 72 with the condition false: __init__ returns the object.
EndInit ==
    /\ run.pc = "replay"
    /\ ~(run.offset < Len(file))
    /\ run' = [pc |-> "constructed", offset |-> run.offset, iters |-> run.iters]
    /\ status' = "open"
    /\ ret' = Ret("open", "none", <<>>, <<>>)
    /\ UNCHANGED <<file, synced, keydir, calls, cut, codec, peers>>

NextReplay ==
    \/ BeginInit
    \/ ReplayLoop
    \/ EndInit

SpecReplay == InitReplay /\ [][NextReplay]_vars

\* The size on disk of the record that starts at offset off of f, as its
\* header declares it.
DeclaredSize(f, off) ==
    HeaderSize + SizeOf(decode_header(Slice(f, off, off + HeaderSize)).key_size)
        + SizeOf(decode_header(Slice(f, off, off + HeaderSize)).value_size)

\* C15: the replay cursor starts at 0, every iteration that does not raise
\* advances it by the on-disk size of the record it stands on (12 + key
\* bytes + value bytes as the header declares), and when construction
\* succeeds the cursor equals the file size.
C15_ReplayConsumesWithoutGaps ==
    [][/\ (run.pc = "idle" /\ run'.pc = "replay") => run'.offset = 0
       /\ (run.pc = "replay" /\ run'.pc = "replay")
            => run'.offset = run.offset + DeclaredSize(file, run.offset)
       /\ run'.pc = "constructed" => run'.offset = Len(file')]_vars

\* C18: every iteration of the replay loop raises or advances the cursor by
\* at least 12 bytes, so that on every file the loop has ended, in success
\* or in an error, after at most one iteration per 12 bytes of the file.
C18_ReplayTerminates ==
    /\ [][(run.pc = "replay" /\ run'.pc = "replay")
             => run'.offset >= run.offset + HeaderSize]_vars
    /\ [](run.pc \in {"replay", "raised", "constructed"}
             => /\ HeaderSize * run.iters <= run.offset
                /\ run.iters > 0 => HeaderSize * (run.iters - 1) < Len(file))

\* Replay has walked over a record with empty key and value and over a
\* second record, and has returned.
C18_Witness ==
    /\ run.pc = "constructed"
    /\ Len(file) = 2 * HeaderSize + 1
    /\ <<>> \in DOMAIN keydir
    /\ Cardinality(DOMAIN keydir) = 2

-----------------------------------------------------------------------------
(* DiskStorage.set one statement at a time, with write, flush and fsync    *)
(* that may fail.                                                          *)

MaxStepSets == 2
MaxFaults == 1

\* Keys "a" and "éa", and a lone surrogate, which UTF-8 cannot encode.
StepKeys == { <<97>>, <<233, 97>>, <<55296>> }

\* The numbers of bytes a failing flush may have written: none, a header.
FlushCuts == { 0, HeaderSize }

\* set that updates the index before it writes the record.
NextPcIndexFirst(pc) ==
    CASE pc = "call" -> "new_entry"
      [] pc = "new_entry" -> "file_id"
      [] pc = "file_id" -> "tstamp"
      [] pc = "tstamp" -> "value_sz"
      [] pc = "value_sz" -> "value_pos"
      [] pc = "value_pos" -> "write"
      [] pc = "write" -> "flush"
      [] pc = "flush" -> "fsync"
      [] pc = "fsync" -> "return"

\* set that calls os.fsync after it has updated the index.
NextPcFsyncLast(pc) ==
    CASE pc = "call" -> "write"
      [] pc = "write" -> "flush"
      [] pc = "flush" -> "new_entry"
      [] pc = "new_entry" -> "file_id"
      [] pc = "file_id" -> "tstamp"
      [] pc = "tstamp" -> "value_sz"
      [] pc = "value_sz" -> "value_pos"
      [] pc = "value_pos" -> "fsync"
      [] pc = "fsync" -> "return"

\* The statement that follows the statement pc in set, lines 90-101.
NextPc(pc) ==
    CASE pc = "call" -> "write"
      [] pc = "write" -> "flush"
      [] pc = "flush" -> "fsync"
      [] pc = "fsync" -> "new_entry"
      [] pc = "new_entry" -> "file_id"
      [] pc = "file_id" -> "tstamp"
      [] pc = "tstamp" -> "value_sz"
      [] pc = "value_sz" -> "value_pos"
      [] pc = "value_pos" -> "return"

\* The frame of a set call: its arguments and locals, the handle's write
\* buffer buf, the index and the file as they were at the call (kd0, file0),
\* and the number of I/O errors so far.
Frame(pc, key, value, tstamp, data, buf, kd0, file0, faults) ==
    [pc |-> pc, key |-> key, value |-> value, tstamp |-> tstamp, data |-> data,
     buf |-> buf, kd0 |-> kd0, file0 |-> file0, faults |-> faults]

\* A fresh engine on an empty file, between calls.
InitSteps ==
    /\ file = <<>>
    /\ synced = 0
    /\ keydir = EmptyKeydir
    /\ status = "open"
    /\ ret = Ret("open", "none", <<>>, <<>>)
    /\ calls = <<>>
    /\ cut = -1
    /\ run = Frame("idle", <<>>, <<>>, 0, <<>>, <<>>, EmptyKeydir, <<>>, 0)
    /\ codec = NoCodec
    /\ peers = NoPeers

\* The statement pc has run and left the frame r: the next statement is
\* up, or set returns.
Proceed(pc, r) ==
    /\ run' = [r EXCEPT !.pc = IF NextPc(pc) = "return" THEN "idle" ELSE NextPc(pc)]
    /\ IF NextPc(pc) = "return"
       THEN /\ ret' = Ret("set", "none", run.key, <<>>)
            /\ calls' = Append(calls, [key |-> run.key, value |-> run.value,
                                       timestamp |-> run.tstamp])
       ELSE UNCHANGED <<ret, calls>>

\* An exception leaves set from the frame r.
Raise(err, r) ==
    /\ run' = [r EXCEPT !.pc = "raised"]
    /\ ret' = Ret("set", err, r.key, <<>>)
    /\ UNCHANGED calls

\* Lines 90-91 for the encoded record enc.
SetCalled(key, value, current_timestamp, enc) ==
    IF enc.err # "none"
    THEN Raise(enc.err, Frame("call", key, value, current_timestamp, <<>>,
                              run.buf, keydir, file, run.faults))
    ELSE Proceed("call", Frame("call", key, value, current_timestamp, enc.bytes,
                               run.buf, keydir, file, run.faults))

SetCall(key, value, current_timestamp) ==
    /\ status = "open"
    /\ run.pc \in {"idle", "raised"}
    /\ Len(calls) < MaxStepSets
    /\ SetCalled(key, value, current_timestamp,
                 encode_kv(Wide(current_timestamp), key, value))
    /\ UNCHANGED <<file, synced, keydir, status, cut, codec, peers>>

\* Line 92: the record goes to the buffer of the handle.
StmtWrite ==
    /\ run.pc = "write"
    /\ Proceed("write", [run EXCEPT !.buf = run.buf \o run.data])
    /\ UNCHANGED <<file, synced, keydir, status, cut, codec, peers>>

\* Line 92 raising OSError: nothing of the record is taken.
StmtWriteFails ==
    /\ run.pc = "write"
    /\ run.faults < MaxFaults
    /\ Raise("OSError", [run EXCEPT !.faults = run.faults + 1])
    /\ UNCHANGED <<file, synced, keydir, status, cut, codec, peers>>

\* Line 93: the buffer goes to the end of the file.
StmtFlush ==
    /\ run.pc = "flush"
    /\ file' = Write(file, run.buf)
    /\ Proceed("flush", [run EXCEPT !.buf = <<>>])
    /\ UNCHANGED <<synced, keydir, status, cut, codec, peers>>

\* Line 93 raising OSError after n bytes: the rest stays in the buffer.
StmtFlushFails(n) ==
    /\ run.pc = "flush"
    /\ run.faults < MaxFaults
    /\ n < Len(run.buf)
    /\ file' = Write(file, SubSeq(run.buf, 1, n))
    /\ Raise("OSError", [run EXCEPT !.buf = SubSeq(run.buf, n + 1, Len(run.buf)),
                                    !.faults = run.faults + 1])
    /\ UNCHANGED <<synced, keydir, status, cut, codec, peers>>

\* Line 94.
StmtFsync ==
    /\ run.pc = "fsync"
    /\ synced' = Fsync(file, synced)
    /\ Proceed("fsync", run)
    /\ UNCHANGED <<file, keydir, status, cut, codec, peers>>

\* Line 94 raising OSError.
StmtFsyncFails ==
    /\ run.pc = "fsync"
    /\ run.faults < MaxFaults
    /\ Raise("OSError", [run EXCEPT !.faults = run.faults + 1])
    /\ UNCHANGED <<file, synced, keydir, status, cut, codec, peers>>

\* Lines 96-97: if key not in self.keydir: self.keydir[key] = {}.
StmtNewEntry ==
    /\ run.pc = "new_entry"
    /\ keydir' = IF run.key \in DOMAIN keydir THEN keydir
                 ELSE Upsert(keydir, run.key, [n \in {} |-> 0])
    /\ Proceed("new_entry", run)
    /\ UNCHANGED <<file, synced, status, cut, codec, peers>>

\* self.keydir[key][name] = v
SetField(kd, key, name, v) ==
    [kd EXCEPT ![key] = [n \in (DOMAIN kd[key]) \cup {name} |->
                             IF n = name THEN v ELSE kd[key][n]]]

\* Lines 98-101, the statement pc storing v under name.
StmtField(pc, name, v) ==
    /\ run.pc = pc
    /\ keydir' = SetField(keydir, run.key, name, v)
    /\ Proceed(pc, run)
    /\ UNCHANGED <<file, synced, status, cut, codec, peers>>

\* self.file_handle.tell(): the position of the handle, which after a write
\* in append mode is the end of the file, plus what is still buffered.
Tell(f, buf) == Len(f) + Len(buf)

NextSteps ==
    \/ \E key \in StepKeys, value \in Values, t \in Timestamps :
           SetCall(key, value, t)
    \/ StmtWrite
    \/ StmtWriteFails
    \/ StmtFlush
    \/ \E n \in FlushCuts : StmtFlushFails(n)
    \/ StmtFsync
    \/ StmtFsyncFails
    \/ StmtNewEntry
    \/ StmtField("file_id", "file_id", FileName)
    \/ StmtField("tstamp", "tstamp", run.tstamp)
    \/ StmtField("value_sz", "value_sz", Len(run.value))
    \/ StmtField("value_pos", "value_pos", Tell(file, run.buf) - Len(run.value))

SpecSteps == InitSteps /\ [][NextSteps]_vars

\* The record of the call in progress is the last thing in the file.
RecordAppended ==
    /\ Len(file) >= Len(run.data)
    /\ Slice(file, Len(file) - Len(run.data), Len(file)) = run.data

\* C16: within a set call the index changes only once the record has been
\* written, flushed and fsynced, and in every state, between statements
\* too, the bytes an entry addresses (a partially filled entry included)
\* are in the synced part of the file.
C16_AppendBeforeIndexPublish ==
    /\ [][keydir' # keydir
             => /\ run.data # <<>>
                /\ RecordAppended
                /\ run.buf = <<>>
                /\ synced = Len(file)
                /\ file' = file /\ synced' = synced]_vars
    /\ [](\A k \in DOMAIN keydir :
              {"value_pos", "value_sz"} \subseteq DOMAIN keydir[k]
                  => /\ keydir[k].value_pos >= 0
                     /\ keydir[k].value_pos + keydir[k].value_sz <= synced)

\* The entry of a new key holds file_id, tstamp and value_sz and no
\* value_pos yet; the record is on disk.
C16_Witness ==
    /\ run.pc = "value_pos"
    /\ run.key \in DOMAIN keydir
    /\ DOMAIN keydir[run.key] = {"file_id", "tstamp", "value_sz"}
    /\ Len(run.value) > 0
    /\ Cardinality(DOMAIN keydir) = 2
    /\ RecordAppended /\ synced = Len(file)

\* C17: when set raises (the record cannot be encoded, or write, flush or
\* fsync fails) the index is as it was at the call, and get returns for
\* every key what it returned at the call.
C17_FailedSetLeavesIndex ==
    run.pc = "raised"
        => /\ keydir = run.kd0
           /\ \A k \in StepKeys :
                  get(keydir, file, k) = get(run.kd0, run.file0, k)

\* flush has failed after writing a header of the second record for a key
\* that is stored.
C17_Witness ==
    /\ run.pc = "raised"
    /\ ret.err = "OSError"
    /\ Len(file) = Len(run.file0) + HeaderSize
    /\ run.key \in DOMAIN keydir
    /\ get(keydir, file, run.key) = [err |-> "none", val |-> <<97>>]

\* set has raised on a key that cannot be encoded, with an entry stored.
C17_WitnessEncoding ==
    /\ run.pc = "raised"
    /\ ret.err = "UnicodeEncodeError"
    /\ keydir # EmptyKeydir

-----------------------------------------------------------------------------
(* Two DiskStorage objects on one file, their calls interleaved.           *)

MaxPeerSets == 3

Instances == {1, 2}

\* One DiskStorage object: its index and the position of its file handle.
Peer(st, kd, pos) == [status |-> st, keydir |-> kd, pos |-> pos]

\* A handle opened for update without append: the bytes go to its position.
WriteAtPosition(f, pos, data) ==
    [file |-> SubSeq(f, 1, pos) \o data
                  \o SubSeq(f, pos + Len(data) + 1, Len(f)),
     at |-> pos,
     pos |-> pos + Len(data)]

\* write and flush on a handle opened with "ab+": the bytes go to the end of
\* the file, wherever the handle stood, and the handle stands at the new end.
WriteAtEnd(f, pos, data) ==
    [file |-> f \o data, at |-> Len(f), pos |-> Len(f) + Len(data)]

\* The file and no object yet.
InitPeers ==
    /\ file = <<>>
    /\ synced = 0
    /\ keydir = EmptyKeydir
    /\ status = "none"
    /\ ret = Ret("none", "none", <<>>, <<>>)
    /\ calls = <<>>
    /\ cut = -1
    /\ run = NoRun
    /\ codec = NoCodec
    /\ peers = [i \in Instances |-> Peer("none", EmptyKeydir, 0)]

\* DiskStorage(file_name) for object i with the replay result r; after a
\* replay to the end of the file the handle stands there.
PeerConstructed(i, r) ==
    /\ peers' = [peers EXCEPT ![i] =
                     IF r.err = "none" THEN Peer("open", r.keydir, r.offset)
                     ELSE Peer("none", EmptyKeydir, 0)]
    /\ ret' = Ret("open", r.err, <<>>, <<>>)

OpenPeer(i) ==
    /\ peers[i].status = "none"
    /\ PeerConstructed(i, Replay(OpenAppend(file), 0, EmptyKeydir))
    /\ UNCHANGED <<file, synced, keydir, status, calls, cut, run, codec>>

\* Lines 92-101 of set on object i, w being the outcome of write and flush;
\* calls records who wrote which bytes where.
PeerAppended(i, key, value, current_timestamp, data, w) ==
    /\ file' = w.file
    /\ synced' = Fsync(w.file, synced)
    /\ peers' = [peers EXCEPT ![i] =
                     Peer("open",
                          Upsert(peers[i].keydir, key,
                                 Entry(FileName, Len(value), w.pos - Len(value),
                                       current_timestamp)),
                          w.pos)]
    /\ calls' = Append(calls, [by |-> i, key |-> key, value |-> value,
                               timestamp |-> current_timestamp,
                               data |-> data, at |-> w.at])
    /\ ret' = Ret("set", "none", key, <<>>)

PeerEncoded(i, key, value, current_timestamp, enc) ==
    IF enc.err # "none"
    THEN /\ ret' = Ret("set", enc.err, key, <<>>)
         /\ UNCHANGED <<file, synced, peers, calls>>
    ELSE PeerAppended(i, key, value, current_timestamp, enc.bytes,
                      WriteAtEnd(file, peers[i].pos, enc.bytes))

\* set on object i, as one step.
SetPeer(i, key, value, current_timestamp) ==
    /\ peers[i].status = "open"
    /\ Len(calls) < MaxPeerSets
    /\ PeerEncoded(i, key, value, current_timestamp,
                   encode_kv(Wide(current_timestamp), key, value))
    /\ UNCHANGED <<keydir, status, cut, run, codec>>

NextPeers ==
    \/ \E i \in Instances : OpenPeer(i)
    \/ \E i \in Instances, key \in Keys, value \in Values, t \in Timestamps :
           SetPeer(i, key, value, t)

SpecPeers == InitPeers /\ [][NextPeers]_vars

\* The calls in which object i has set key k.
SetsOf(i, k) == { j \in 1..Len(calls) : calls[j].by = i /\ calls[j].key = k }

Last(S) == CHOOSE j \in S : \A m \in S : m <= j

\* The entry e addresses the value bytes of the record written in call w:
\* the last value_sz bytes of the record, where call w put them.
AddressesValueOf(e, w) ==
    /\ e.value_pos = w.at + Len(w.data) - e.value_sz
    /\ e.value_pos >= w.at + HeaderSize
    /\ Slice(file, e.value_pos, e.value_pos + e.value_sz)
           = Slice(w.data, Len(w.data) - e.value_sz, Len(w.data))
    /\ Slice(file, w.at, w.at + Len(w.data)) = w.data

\* C19: with two objects open on one file and their set calls interleaved
\* in any order, every index entry of either object addresses exactly the
\* value bytes that object wrote in its last set for the key, never bytes
\* the other object appended.
C19_PeersKeepTheirPositions ==
    \A i \in Instances : \A k \in DOMAIN peers[i].keydir :
        SetsOf(i, k) # {}
            => AddressesValueOf(peers[i].keydir[k], calls[Last(SetsOf(i, k))])

\* Both objects are open and hold different entries for one key, object 1
\* having set it before and after a set of object 2.
C19_Witness ==
    /\ peers[1].status = "open" /\ peers[2].status = "open"
    /\ Len(calls) = 3
    /\ calls[1].by = 1 /\ calls[2].by = 2 /\ calls[3].by = 1
    /\ \E k \in Keys :
           /\ k \in DOMAIN peers[1].keydir /\ k \in DOMAIN peers[2].keydir
           /\ SetsOf(2, k) # {}
           /\ peers[1].keydir[k].value_pos > peers[2].keydir[k].value_pos
           /\ peers[2].keydir[k].value_sz > 0

=============================================================================
